---- MODULE Spec2Model ----
(***************************************************************************)
(* A model of circuit_sim.py: the polyline helpers, the rectangular loop   *)
(* template, the series R-C physics, the electron markers, the component   *)
(* layout, the order prompt and the animation loop of Canvas.run.          *)
(*                                                                         *)
(* Python floats are modelled by exact rationals [k, n, d] (k = "fin"),    *)
(* with the special values inf, nan and None the code produces kept as     *)
(* kinds of their own.  math.exp is modelled at a reduced precision (see   *)
(* exp).  An exception raised by the code is a status string.              *)
(***************************************************************************)
EXTENDS Integers, Naturals, Sequences, FiniteSets, TLC

VARIABLES
    pc,             \* position in the program (or in a direct call sequence)
    V,              \* battery voltage entered (a number)
    resistors,      \* R values entered, in order; resistor i is named R<i>
    capacitors,     \* C values entered, in order; capacitor i is named C<i>
    speed_scale,    \* visual speed scale entered
    time_scale,     \* physics time scale entered
    line,           \* the order line typed at prompt_order
    order,          \* the placement order prompt_order returned
    physics,        \* the SeriesRCPhysics object (or the exception raised)
    electrons,      \* the ElectronSystem object
    centers_s,      \* component_centers_along_path's result
    placed,         \* what the renderer has drawn: the wire, the symbols
    t_phys,         \* Canvas.run's clock
    I,              \* the current last sampled
    ticks,          \* iterations of the animation loop so far
    stop_requested, \* the environment asked the run to stop
    probe           \* arguments and result of the last direct call

vars == <<pc, V, resistors, capacitors, speed_scale, time_scale, line, order,
          physics, electrons, centers_s, placed, t_phys, I, ticks,
          stop_requested, probe>>

----------------------------------------------------------------------------
(* Float arithmetic, exact.                                                *)

Abs(x) == IF x < 0 THEN -x ELSE x

RECURSIVE Gcd(_, _)
Gcd(a, b) == IF b = 0 THEN a ELSE Gcd(b, a % b)

\* The float n/d, in lowest terms with d > 0.
Q(n, d) ==
    LET sg == IF d < 0 THEN -1 ELSE 1
        g  == Gcd(Abs(n), Abs(d))
    IN  [k |-> "fin", n |-> (sg * n) \div g, d |-> (sg * d) \div g]

Inf  == [k |-> "inf", n |-> 1, d |-> 1]
NaN  == [k |-> "nan", n |-> 0, d |-> 1]
None == [k |-> "none", n |-> 0, d |-> 1]
OverflowError == [k |-> "OverflowError", n |-> 0, d |-> 1]
Zero == Q(0, 1)

isfinite(a) == a.k = "fin"

FAdd(a, b) == Q(a.n * b.d + b.n * a.d, a.d * b.d)
FSub(a, b) == Q(a.n * b.d - b.n * a.d, a.d * b.d)
FNeg(a)    == Q(-a.n, a.d)
FAbs(a)    == Q(Abs(a.n), a.d)
\* a * b; inf * 0.0 is nan, inf * x is inf (the code multiplies inf only by Ceq >= 0).
FMul(a, b) ==
    IF a.k = "fin" /\ b.k = "fin" THEN Q(a.n * b.n, a.d * b.d)
    ELSE IF a.k = "nan" \/ b.k = "nan" THEN NaN
    ELSE IF (a.k = "fin" /\ a.n = 0) \/ (b.k = "fin" /\ b.n = 0) THEN NaN
    ELSE Inf
\* a / b for a finite b # 0 (the callers guard b).
FDiv(a, b) == Q(a.n * b.d, a.d * b.n)
\* Comparisons; one with nan is False, as in Python.
FLt(a, b) == a.k = "fin" /\ b.k = "fin" /\ a.n * b.d < b.n * a.d
FLe(a, b) == a.k = "fin" /\ b.k = "fin" /\ a.n * b.d <= b.n * a.d
\* a % m for m > 0: a - floor(a/m)*m.
FMod(a, m) == FSub(a, FMul(Q((a.n * m.d) \div (a.d * m.n), 1), m))

RECURSIVE SumSeq(_)
SumSeq(s) == IF s = <<>> THEN Zero ELSE FAdd(Head(s), SumSeq(Tail(s)))

\* All sequences over S of length at most n.
SeqsUpTo(S, n) == UNION {[1..m -> S] : m \in 0..n}

----------------------------------------------------------------------------
(* Physics (series loop).                                                  *)

\* math.exp at reduced precision: the argument is cut down to a multiple of
\* 1/4 and the result kept to 2 decimals.  ExpDecay[j+1] = e^(-j/4) and
\* ExpGrowth[j] = e^(j/4), both times 100 and cut to an integer.  Like the
\* double it stands for, the result underflows to 0.0 for a very negative
\* argument and the call raises OverflowError for a very large one.
ExpDecay ==
    <<100, 77, 60, 47, 36, 28, 22, 17, 13, 10, 8, 6, 4, 3, 3, 2, 1, 1, 1>>
ExpGrowth ==
    <<128, 164, 211, 271, 349, 448, 575, 738, 948, 1218, 1564, 2008>>

exp(x) ==
    LET j == (4 * x.n) \div x.d
    IN  IF j <= 0
        THEN IF 1 - j <= Len(ExpDecay) THEN Q(ExpDecay[1 - j], 100) ELSE Zero
        ELSE IF j <= Len(ExpGrowth) THEN Q(ExpGrowth[j], 100)
             ELSE OverflowError

ToFloats(s) == [i \in 1..Len(s) |-> Q(s[i], 1)]
Reciprocals(s) == [i \in 1..Len(s) |-> Q(1, s[i])]

\* SeriesRCPhysics.__init__.  1.0/c.C raises ZeroDivisionError for C = 0.
SeriesRCPhysics(v, rs, cs) ==
    LET Req == IF rs # <<>> THEN SumSeq(ToFloats(rs)) ELSE Inf
    IN  IF \E i \in 1..Len(cs) : cs[i] = 0
        THEN [status |-> "ZeroDivisionError", V |-> Q(v, 1), Req |-> Req,
              Ceq |-> None, tau |-> None]
        ELSE LET inv == SumSeq(Reciprocals(cs))
                 Ceq == IF cs # <<>>
                        THEN (IF FLt(Zero, inv) THEN FDiv(Q(1, 1), inv) ELSE Zero)
                        ELSE None
                 tau == IF Ceq.k # "none" THEN FMul(Req, Ceq) ELSE None
             IN  [status |-> "ok", V |-> Q(v, 1), Req |-> Req, Ceq |-> Ceq,
                  tau |-> tau]

\* A current() that tests tau before Ceq: a resistor-only loop reads as dead.
current_tau_first(p, t) ==
    IF ~isfinite(p.Req) \/ FLe(p.Req, Zero) THEN Zero
    ELSE IF p.tau.k = "none" \/ FLe(p.tau, Zero) THEN Zero
    ELSE IF p.Ceq.k = "none" THEN FDiv(p.V, p.Req)
    ELSE LET e == exp(FDiv(FNeg(t), p.tau))
         IN  IF e.k = "fin" THEN FMul(FDiv(p.V, p.Req), e) ELSE e

\* A current() with the sign of the exponent lost.
current_growing(p, t) ==
    IF ~isfinite(p.Req) \/ FLe(p.Req, Zero) THEN Zero
    ELSE IF p.Ceq.k = "none" THEN FDiv(p.V, p.Req)
    ELSE IF p.tau.k = "none" \/ FLe(p.tau, Zero) THEN Zero
    ELSE LET e == exp(FDiv(t, p.tau))
         IN  IF e.k = "fin" THEN FMul(FDiv(p.V, p.Req), e) ELSE e

\* SeriesRCPhysics.current: a float, or OverflowError when math.exp raises.
current(p, t) ==
    IF ~isfinite(p.Req) \/ FLe(p.Req, Zero) THEN Zero
    ELSE IF p.Ceq.k = "none" THEN FDiv(p.V, p.Req)
    ELSE IF p.tau.k = "none" \/ FLe(p.tau, Zero) THEN Zero
    ELSE LET e == exp(FDiv(FNeg(t), p.tau))
         IN  IF e.k = "fin" THEN FMul(FDiv(p.V, p.Req), e) ELSE e

NoPhysics == [status |-> "none", V |-> Zero, Req |-> None, Ceq |-> None,
              tau |-> None]

----------------------------------------------------------------------------
(* Polyline helpers.  A point is <<x, y>>, two floats.                     *)

Pt(x, y) == <<Q(x, 1), Q(y, 1)>>

\* The integer square root.
ISqrt(n) == CHOOSE r \in 0..n : r * r <= n /\ n < (r + 1) * (r + 1)

\* math.hypot; exact whenever the distance is rational, as it is for every
\* path used here (axis-parallel segments and the 3-4-5 triangle).
hypot(dx, dy) ==
    LET den == dx.d * dy.d
        a   == dx.n * dy.d
        b   == dy.n * dx.d
    IN  Q(ISqrt(a * a + b * b), den)

polyline_lengths(pts) ==
    [i \in 1..(Len(pts) - 1) |->
        hypot(FSub(pts[i + 1][1], pts[i][1]), FSub(pts[i + 1][2], pts[i][2]))]

PosOk(x, y, ux, uy) == [status |-> "ok", x |-> x, y |-> y, ux |-> ux, uy |-> uy]
PosIndexError == [status |-> "IndexError", x |-> Zero, y |-> Zero,
                  ux |-> Zero, uy |-> Zero]

\* The "fallback at end" of position_dir_on_polyline: pts[-2] and pts[-1].
fallback_at_end(pts) ==
    IF Len(pts) < 2 THEN PosIndexError
    ELSE LET p1 == pts[Len(pts) - 1]
             p2 == pts[Len(pts)]
             h  == hypot(FSub(p2[1], p1[1]), FSub(p2[2], p1[2]))
             L  == IF h = Zero THEN Q(1, 1) ELSE h
         IN  PosOk(p2[1], p2[2], FDiv(FSub(p2[1], p1[1]), L),
                   FDiv(FSub(p2[2], p1[2]), L))

\* The loop of position_dir_on_polyline from segment i on, s being what is
\* left of the distance.
RECURSIVE walk(_, _, _, _)
walk(pts, seglens, i, s) ==
    IF i > Len(seglens) THEN fallback_at_end(pts)
    ELSE LET L  == seglens[i]
             p1 == pts[i]
             p2 == pts[i + 1]
         IN  IF FLe(s, L)
             THEN IF L = Zero THEN PosOk(p1[1], p1[2], Q(1, 1), Zero)
                  ELSE LET u == FDiv(s, L)
                       IN  PosOk(FAdd(p1[1], FMul(u, FSub(p2[1], p1[1]))),
                                 FAdd(p1[2], FMul(u, FSub(p2[2], p1[2]))),
                                 FDiv(FSub(p2[1], p1[1]), L),
                                 FDiv(FSub(p2[2], p1[2]), L))
             ELSE walk(pts, seglens, i + 1, FSub(s, L))

position_dir_on_polyline(pts, seglens, s) == walk(pts, seglens, 1, s)

----------------------------------------------------------------------------
(* Template geometry.                                                      *)

RectLoopTemplate(width, height, margin, wire_thickness) ==
    [W |-> Q(width, 1), H |-> Q(height, 1),
     outer_inset |-> Q(margin, 1),
     inner_inset |-> Q(margin + wire_thickness, 1),
     mid_inset   |-> FAdd(Q(margin, 1), Q(wire_thickness, 2))]

rect_path(tpl, inset) ==
    LET x == FSub(FDiv(tpl.W, Q(2, 1)), inset)
        y == FSub(FDiv(tpl.H, Q(2, 1)), inset)
    IN  << <<FNeg(x), FNeg(y)>>, <<FNeg(x), y>>, <<x, y>>, <<x, FNeg(y)>>,
           <<FNeg(x), FNeg(y)>> >>

outer_path(tpl) == rect_path(tpl, tpl.outer_inset)
inner_path(tpl) == rect_path(tpl, tpl.inner_inset)
mid_path(tpl)   == rect_path(tpl, tpl.mid_inset)

----------------------------------------------------------------------------
(* Electron markers.                                                       *)

\* sum(seglens) or 1.0
total_length(seglens) ==
    LET sm == SumSeq(seglens) IN IF sm = Zero THEN Q(1, 1) ELSE sm

\* ElectronSystem.__init__; rnd[i] is the i-th value random.random() gives,
\* in [0, 1).  A new turtle stands at the origin.
ElectronSystem(path_pts, rnd) ==
    LET seglens == polyline_lengths(path_pts)
        totalL  == total_length(seglens)
    IN  [status  |-> "ok",
         pts     |-> path_pts,
         seglens |-> seglens,
         totalL  |-> totalL,
         s       |-> [i \in 1..Len(rnd) |-> FMul(rnd[i], totalL)],
         at      |-> [i \in 1..Len(rnd) |-> <<Zero, Zero>>]]

\* An advance that takes the path length off once instead of wrapping.
advance_single_wrap(s, dt, speed, totalL) ==
    LET moved == FAdd(s, FMul(speed, dt))
    IN  IF FLe(totalL, moved) THEN FSub(moved, totalL) ELSE moved

\* (e.s + speed*dt) % self.totalL
advance(s, dt, speed, totalL) == FMod(FAdd(s, FMul(speed, dt)), totalL)

\* ElectronSystem.update: the electrons in order; the first one whose
\* position lookup raises ends the call, its s already written.
update(es, dt, speed) ==
    LET n      == Len(es.s)
        new(i) == advance(es.s[i], dt, speed, es.totalL)
        pos(i) == position_dir_on_polyline(es.pts, es.seglens, new(i))
        bad    == {i \in 1..n : pos(i).status # "ok"}
        stop   == IF bad = {} THEN n + 1
                  ELSE CHOOSE i \in bad : \A j \in bad : i <= j
    IN  [es EXCEPT
           !.status = IF bad = {} THEN "ok" ELSE "IndexError",
           !.s  = [i \in 1..n |-> IF i <= stop THEN new(i) ELSE es.s[i]],
           !.at = [i \in 1..n |-> IF i < stop THEN <<pos(i).x, pos(i).y>>
                                  ELSE es.at[i]]]

----------------------------------------------------------------------------
(* Layout of components along the path.                                    *)

start_frac == Q(8, 100)
end_frac   == Q(92, 100)

\* A layout that divides by the count instead of the count less one.
centers_short_step(totalL, n_components) ==
    IF n_components <= 0 THEN <<>>
    ELSE LET a == FMul(totalL, start_frac)
             b == FMul(totalL, end_frac)
         IN  IF n_components = 1 THEN <<FDiv(FAdd(a, b), Q(2, 1))>>
             ELSE LET step == FDiv(FSub(b, a), Q(n_components, 1))
                  IN  [i \in 1..n_components |-> FAdd(a, FMul(Q(i - 1, 1), step))]

component_centers_along_path(totalL, n_components) ==
    IF n_components <= 0 THEN <<>>
    ELSE LET a == FMul(totalL, start_frac)
             b == FMul(totalL, end_frac)
         IN  IF n_components = 1 THEN <<FDiv(FAdd(a, b), Q(2, 1))>>
             ELSE LET step == FDiv(FSub(b, a), Q(n_components - 1, 1))
                  IN  [i \in 1..n_components |-> FAdd(a, FMul(Q(i - 1, 1), step))]

----------------------------------------------------------------------------
(* Prompts.                                                                *)

\* f"R{i+1}" and f"C{i+1}"
RNames == <<"R1", "R2", "R3", "R4">>
CNames == <<"C1", "C2", "C3", "C4">>

\* The name tokens of nr resistors and nc capacitors, resistors first.
name_tokens(nr, nc) == SubSeq(RNames, 1, nr) \o SubSeq(CNames, 1, nc)

Range(s) == {s[i] : i \in 1..Len(s)}
Count(s, x) == Cardinality({i \in 1..Len(s) : s[i] = x})

\* s.strip() then s.split(): the typed line is its words and the blanks
\* between and around them.
IsWord(w) == w # " "
split(ln) == SelectSeq(ln, IsWord)

\* "If user omitted some tokens, append them at end"
RECURSIVE append_missing(_, _)
append_missing(ord, toks) ==
    IF toks = <<>> THEN ord
    ELSE IF Head(toks) \in Range(ord) THEN append_missing(ord, Tail(toks))
    ELSE append_missing(Append(ord, Head(toks)), Tail(toks))

\* prompt_order, given the line input() returns.
prompt_order(nr, nc, ln) ==
    LET tokens == name_tokens(nr, nc)
        dflt   == <<"B">> \o tokens
        ord    == split(ln)
    IN  IF ord = <<>> THEN dflt
        ELSE IF Count(ord, "B") # 1 THEN dflt
        ELSE IF \E i \in 1..Len(ord) : ord[i] \notin Range(dflt) THEN dflt
        ELSE append_missing(ord, dflt)

----------------------------------------------------------------------------
(* Canvas / simulation, and __main__.                                      *)

\* __main__: RectLoopTemplate(width=240, height=240, margin=24, wire_thickness=12)
Width         == 240
Height        == 240
Margin        == 24
WireThickness == 12
\* Canvas.run: k = 60.0 and dt_wall = 1/60
k       == 60
dt_wall == Q(1, 60)

template == RectLoopTemplate(Width, Height, Margin, WireThickness)

NoElectrons == [status |-> "none", pts |-> <<>>, seglens |-> <<>>,
                totalL |-> Zero, s |-> <<>>, at |-> <<>>]
NoProbe == [call |-> "none"]

NothingDrawn == [wire |-> <<>>, symbols |-> <<>>]

\* TurtleRenderer.draw_wire: the two polylines drawn.
draw_wire(outer_pts, inner_pts) == <<outer_pts, inner_pts>>

\* The symbol Canvas.run draws for a token.
symbol_kind(tok) ==
    IF tok = "B" THEN "battery"
    ELSE IF tok \in Range(RNames) THEN "resistor"
    ELSE IF tok \in Range(CNames) THEN "capacitor"
    ELSE "nothing"

\* "Draw components at their assigned centers": zip(order, centers_s).
draw_components(pts, seglens, ord, centers) ==
    LET n == IF Len(ord) < Len(centers) THEN Len(ord) ELSE Len(centers)
    IN  [i \in 1..n |->
            LET p == position_dir_on_polyline(pts, seglens, centers[i])
            IN  [kind |-> symbol_kind(ord[i]), x |-> p.x, y |-> p.y,
                 ux |-> p.ux, uy |-> p.uy]]

\* Bounds of the model.
MaxComponents == 1      \* resistors, and capacitors, entered in a run
NumElectrons  == 2      \* electrons of a run (the code makes 35)
MaxTicks      == 4      \* animation frames followed

Volts       == {-2, 0, 3}
Ohms        == {-1, 0, 2}
Farads      == {-1, 0, 2}
TimeScales  == {-240, 0, 60}
SpeedScales == {1, 3}
\* random.random() is in [0, 1)
RandomValues == {Q(0, 1), Q(1, 2)}
\* Lines typed at the order prompt: blank, a reordering, a repeated name.
MainLines == {<<>>, <<"R1", " ", "B">>, <<"B", " ", "R1", " ", "R1">>}

\* The state at "order = prompt_order(resistors, capacitors)", the numbers read.
Init ==
    /\ pc = "prompt_order"
    /\ V \in Volts
    /\ resistors \in SeqsUpTo(Ohms, MaxComponents)
    /\ capacitors \in SeqsUpTo(Farads, MaxComponents)
    /\ speed_scale \in SpeedScales
    /\ time_scale \in TimeScales
    /\ line \in MainLines
    /\ order = <<>>
    /\ physics = NoPhysics
    /\ electrons = NoElectrons
    /\ centers_s = <<>>
    /\ placed = NothingDrawn
    /\ t_phys = Zero
    /\ I = Zero
    /\ ticks = 0
    /\ stop_requested = FALSE
    /\ probe = NoProbe

\* order = prompt_order(resistors, capacitors)
PromptOrder ==
    /\ pc = "prompt_order"
    /\ order' = prompt_order(Len(resistors), Len(capacitors), line)
    /\ pc' = "physics"
    /\ UNCHANGED <<V, resistors, capacitors, speed_scale, time_scale, line,
                   physics, electrons, centers_s, placed, t_phys, I, ticks,
                   stop_requested, probe>>

\* physics = SeriesRCPhysics(V=V, resistors=resistors, capacitors=capacitors);
\* an exception ends the program.
BuildPhysics ==
    /\ pc = "physics"
    /\ physics' = SeriesRCPhysics(V, resistors, capacitors)
    /\ pc' = IF physics'.status = "ok" THEN "run" ELSE "crashed"
    /\ UNCHANGED <<V, resistors, capacitors, speed_scale, time_scale, line,
                   order, electrons, centers_s, placed, t_phys, I, ticks,
                   stop_requested, probe>>

\* Canvas.run up to "while True": the wire drawn, the electrons made, the
\* centers computed, the symbols drawn, the clock at 0.0.
RunSetup ==
    /\ pc = "run"
    /\ \E rnd \in [1..NumElectrons -> RandomValues] :
          electrons' = ElectronSystem(mid_path(template), rnd)
    /\ LET mid_pts == mid_path(template)
           seglens == polyline_lengths(mid_pts)
           totalL  == total_length(seglens)
       IN  /\ centers_s' = component_centers_along_path(totalL, Len(order))
           /\ placed' = [wire |-> draw_wire(outer_path(template),
                                             inner_path(template)),
                          symbols |-> draw_components(mid_pts, seglens, order,
                                                      centers_s')]
    /\ t_phys' = Zero
    /\ pc' = "loop"
    /\ UNCHANGED <<V, resistors, capacitors, speed_scale, time_scale, line,
                   order, physics, I, ticks, stop_requested, probe>>

\* One iteration of "while True"; nothing is tested before it.  An
\* OverflowError of math.exp ends the program.  (screen.update() repaints
\* and changes nothing kept here.)
Tick ==
    /\ pc = "loop"
    /\ ticks < MaxTicks
    /\ t_phys' = FAdd(t_phys, FMul(dt_wall, Q(time_scale, 1)))
    /\ I' = current(physics, t_phys')
    /\ IF I'.k = "fin"
       THEN /\ electrons' = update(electrons, dt_wall,
                                   FMul(FMul(Q(k, 1), FAbs(I')), Q(speed_scale, 1)))
            /\ pc' = "loop"
       ELSE /\ electrons' = electrons
            /\ pc' = "crashed"
    /\ ticks' = ticks + 1
    /\ UNCHANGED <<V, resistors, capacitors, speed_scale, time_scale, line,
                   order, physics, centers_s, placed, stop_requested, probe>>

\* The environment asks the run to stop (the window is closed, a test's tick
\* budget is spent).  Nothing in Canvas.run reads the request.
RequestStop ==
    /\ pc = "loop"
    /\ ~stop_requested
    /\ stop_requested' = TRUE
    /\ UNCHANGED <<pc, V, resistors, capacitors, speed_scale, time_scale, line,
                   order, physics, electrons, centers_s, placed, t_phys, I,
                   ticks, probe>>

Next == PromptOrder \/ BuildPhysics \/ RunSetup \/ Tick \/ RequestStop

Spec == Init /\ [][Next]_vars

----------------------------------------------------------------------------
(* The physics alone: SeriesRCPhysics built from any entered values, then  *)
(* current(t) called at any of the sample times; probe keeps the sample    *)
(* before the last one.                                                    *)

MaxResistors  == 2
MaxCapacitors == 2
MaxTime       == 8

SampleTimes == {Q(t, 1) : t \in -1..MaxTime} \cup {Q(1, 2)}

NoSample == [call |-> "none", t |-> Zero, I |-> Zero]

PhysInit ==
    /\ pc = "construct"
    /\ V \in Volts
    /\ resistors \in SeqsUpTo(Ohms, MaxResistors)
    /\ capacitors \in SeqsUpTo(Farads, MaxCapacitors)
    /\ speed_scale = 1
    /\ time_scale = 1
    /\ line = <<>>
    /\ order = <<>>
    /\ physics = NoPhysics
    /\ electrons = NoElectrons
    /\ centers_s = <<>>
    /\ placed = NothingDrawn
    /\ t_phys = Zero
    /\ I = Zero
    /\ ticks = 0
    /\ stop_requested = FALSE
    /\ probe = NoSample

\* SeriesRCPhysics(V, resistors, capacitors)
PhysConstruct ==
    /\ pc = "construct"
    /\ physics' = SeriesRCPhysics(V, resistors, capacitors)
    /\ pc' = IF physics'.status = "ok" THEN "built" ELSE "raised"
    /\ UNCHANGED <<V, resistors, capacitors, speed_scale, time_scale, line,
                   order, electrons, centers_s, placed, t_phys, I, ticks,
                   stop_requested, probe>>

\* physics.current(t)
PhysCurrent ==
    /\ pc \in {"built", "sampled"}
    /\ \E t \in SampleTimes :
          /\ t_phys' = t
          /\ I' = current(physics, t)
    /\ probe' = IF pc = "sampled"
                THEN [call |-> "current", t |-> t_phys, I |-> I]
                ELSE probe
    /\ pc' = "sampled"
    /\ UNCHANGED <<V, resistors, capacitors, speed_scale, time_scale, line,
                   order, physics, electrons, centers_s, placed, ticks,
                   stop_requested>>

PhysNext == PhysConstruct \/ PhysCurrent

SpecPhysics == PhysInit /\ [][PhysNext]_vars

----------------------------------------------------------------------------
(* The path and the electrons alone: an ElectronSystem built on any of the *)
(* paths and updated with any dt and speed >= 0, and                       *)
(* position_dir_on_polyline called with any distance.                      *)

MaxElectrons == 2
MaxSpeed     == 9

\* No points, one point, all points equal, a zero-length segment last and
\* first, an open and a closed path, a slanted segment.
Paths ==
    { <<>>,
      <<Pt(0, 0)>>,
      <<Pt(0, 0), Pt(0, 0)>>,
      <<Pt(1, 1), Pt(1, 1), Pt(1, 1)>>,
      <<Pt(0, 0), Pt(1, 0)>>,
      <<Pt(0, 0), Pt(1, 0), Pt(1, 0)>>,
      <<Pt(0, 0), Pt(0, 0), Pt(0, 1)>>,
      <<Pt(0, 0), Pt(0, 2), Pt(0, 2), Pt(0, 2)>>,
      <<Pt(0, 0), Pt(1, 0), Pt(1, 1), Pt(0, 1), Pt(0, 0)>>,
      <<Pt(0, 0), Pt(3, 4)>> }
Dts       == {Q(0, 1), Q(1, 2), Q(1, 1)}
Speeds    == {Q(0, 1), Q(1, 1), Q(MaxSpeed, 1)}
Distances == {Q(0, 1), Q(1, 2), Q(1, 1), Q(3, 2), Q(3, 1), Q(6, 1)}

NoPos == [status |-> "none", x |-> Zero, y |-> Zero, ux |-> Zero, uy |-> Zero]

PathInit ==
    /\ pc = "path"
    /\ \E pts \in Paths :
          probe = [call |-> "none", pts |-> pts, dt |-> Zero, speed |-> Zero,
                   s |-> Zero, pos |-> NoPos]
    /\ V = 0
    /\ resistors = <<>>
    /\ capacitors = <<>>
    /\ speed_scale = 1
    /\ time_scale = 1
    /\ line = <<>>
    /\ order = <<>>
    /\ physics = NoPhysics
    /\ electrons = NoElectrons
    /\ centers_s = <<>>
    /\ placed = NothingDrawn
    /\ t_phys = Zero
    /\ I = Zero
    /\ ticks = 0
    /\ stop_requested = FALSE

\* ElectronSystem(path_pts, n)
PathBuild ==
    /\ pc = "path"
    /\ \E n \in 0..MaxElectrons :
          \E rnd \in [1..n -> RandomValues] :
             electrons' = ElectronSystem(probe.pts, rnd)
    /\ pc' = "built"
    /\ UNCHANGED <<V, resistors, capacitors, speed_scale, time_scale, line,
                   order, physics, centers_s, placed, t_phys, I, ticks,
                   stop_requested, probe>>

\* electrons.update(dt, speed), while no call has raised.
PathUpdate ==
    /\ pc = "built"
    /\ electrons.status = "ok"
    /\ \E dt \in Dts, speed \in Speeds :
          /\ electrons' = update(electrons, dt, speed)
          /\ probe' = [probe EXCEPT !.call = "update", !.dt = dt,
                                    !.speed = speed]
    /\ UNCHANGED <<pc, V, resistors, capacitors, speed_scale, time_scale, line,
                   order, physics, centers_s, placed, t_phys, I, ticks,
                   stop_requested>>

\* position_dir_on_polyline(pts, polyline_lengths(pts), s)
PathPosition ==
    /\ pc = "path"
    /\ \E s \in Distances :
          probe' = [probe EXCEPT
                      !.call = "position", !.s = s,
                      !.pos = position_dir_on_polyline(
                                 probe.pts, polyline_lengths(probe.pts), s)]
    /\ pc' = "queried"
    /\ UNCHANGED <<V, resistors, capacitors, speed_scale, time_scale, line,
                   order, physics, electrons, centers_s, placed, t_phys, I,
                   ticks, stop_requested>>

PathNext == PathBuild \/ PathUpdate \/ PathPosition

SpecPath == PathInit /\ [][PathNext]_vars

----------------------------------------------------------------------------
(* The layout alone: component_centers_along_path called with any total    *)
(* length >= 0 (in halves) and any count.                                  *)

MaxTotal == 16
MaxCount == 5

LayoutInit ==
    /\ pc = "layout"
    /\ \E m \in 0..MaxTotal, n \in -1..MaxCount :
          probe = [call |-> "none", totalL |-> Q(m, 2), n |-> n]
    /\ V = 0
    /\ resistors = <<>>
    /\ capacitors = <<>>
    /\ speed_scale = 1
    /\ time_scale = 1
    /\ line = <<>>
    /\ order = <<>>
    /\ physics = NoPhysics
    /\ electrons = NoElectrons
    /\ centers_s = <<>>
    /\ placed = NothingDrawn
    /\ t_phys = Zero
    /\ I = Zero
    /\ ticks = 0
    /\ stop_requested = FALSE

\* component_centers_along_path(totalL, n_components)
LayoutCenters ==
    /\ pc = "layout"
    /\ centers_s' = component_centers_along_path(probe.totalL, probe.n)
    /\ probe' = [probe EXCEPT !.call = "centers"]
    /\ pc' = "laid"
    /\ UNCHANGED <<V, resistors, capacitors, speed_scale, time_scale, line,
                   order, physics, electrons, placed, t_phys, I, ticks,
                   stop_requested>>

LayoutNext == LayoutCenters

SpecLayout == LayoutInit /\ [][LayoutNext]_vars

----------------------------------------------------------------------------
(* The order prompt alone: prompt_order called for any number of resistors *)
(* and capacitors, the user typing any line of up to MaxWords words and    *)
(* blanks.                                                                 *)

MaxNames == 2
MaxWords == 3

\* What a line is made of: the battery, names that may exist, a name that
\* never does, a blank.
Typed == {"B", "R1", "R2", "C1", "X1", " "}

OrderInit ==
    /\ pc = "prompt_order"
    /\ V = 0
    /\ \E nr \in 0..MaxNames : resistors = [i \in 1..nr |-> 2]
    /\ \E nc \in 0..MaxNames : capacitors = [i \in 1..nc |-> 2]
    /\ line \in SeqsUpTo(Typed, MaxWords)
    /\ speed_scale = 1
    /\ time_scale = 1
    /\ order = <<>>
    /\ physics = NoPhysics
    /\ electrons = NoElectrons
    /\ centers_s = <<>>
    /\ placed = NothingDrawn
    /\ t_phys = Zero
    /\ I = Zero
    /\ ticks = 0
    /\ stop_requested = FALSE
    /\ probe = NoProbe

OrderNext == PromptOrder

SpecOrder == OrderInit /\ [][OrderNext]_vars

----------------------------------------------------------------------------
(* The claims.                                                             *)

\* Shorthands for the circuit entered.
ResistorOnly == resistors # <<>> /\ capacitors = <<>>
RCCircuit    == resistors # <<>> /\ capacitors # <<>>
SumR         == SumSeq(ToFloats(resistors))
\* The path handed to ElectronSystem, and its raw length.
ProbeLength  == SumSeq(polyline_lengths(probe.pts))

\* C1: after construction of the electron field and after every
\* update(dt, speed) with dt >= 0 and speed >= 0, every electron has
\* 0 <= s < totalL, where totalL is the sum of the segment lengths, or 1.0
\* if that sum is zero.
C1_ElectronsInRange ==
    electrons.status # "none" =>
        /\ electrons.totalL = IF ProbeLength = Zero THEN Q(1, 1) ELSE ProbeLength
        /\ \A i \in 1..Len(electrons.s) :
              /\ FLe(Zero, electrons.s[i])
              /\ FLt(electrons.s[i], electrons.totalL)

\* An update that moved an electron by more than two path lengths.
C1_Witness ==
    /\ pc = "built"
    /\ probe.call = "update"
    /\ electrons.status = "ok"
    /\ Len(electrons.s) >= 1
    /\ FLt(FMul(Q(2, 1), electrons.totalL), FMul(probe.speed, probe.dt))
    /\ electrons.s[1] # Zero

\* C2: building the physics and calling current(t) never raises, whatever
\* the lists hold (a capacitor with C = 0 included), and every call returns
\* a finite number.
C2_NeverRaises ==
    /\ pc # "raised"
    /\ pc = "sampled" => isfinite(I)

\* C3: building an electron field on a path of fewer than 2 points fails
\* with InvalidPathError; nothing is produced from 0 or 1 points.
C3_ShortPathRejected ==
    (pc = "built" /\ Len(probe.pts) < 2) =>
        electrons.status = "InvalidPathError"

\* C4: the stop signal is checked at every tick boundary: once it is raised
\* no further tick begins.
C4_StopEndsTicking == [][stop_requested => ticks' = ticks]_vars

\* C5 as claimed: for a resistor-only circuit current(t) is one value for
\* every t >= 0, and that value is V / Req (current * Req = V).
C5_Original ==
    (pc = "sampled" /\ ResistorOnly /\ FLe(Zero, t_phys)) =>
        /\ FMul(I, SumR) = Q(V, 1)
        /\ (probe.call = "current" /\ FLe(Zero, probe.t)) => I = probe.I

\* C5 amended: for a resistor-only circuit current(t) is one value for every
\* t; it is V / Req when Req > 0 and 0 when Req <= 0.
C5_ResistorOnly ==
    (pc = "sampled" /\ ResistorOnly) =>
        /\ IF FLt(Zero, SumR) THEN FMul(I, SumR) = Q(V, 1) ELSE I = Zero
        /\ probe.call = "current" => I = probe.I

\* Two samples of a live resistor-only circuit, the later one at a later time.
C5_Witness ==
    /\ pc = "sampled"
    /\ ResistorOnly
    /\ FLt(Zero, SumR)
    /\ V # 0
    /\ probe.call = "current"
    /\ FLe(Zero, probe.t)
    /\ FLt(probe.t, t_phys)
    /\ I # Zero

\* C6 as claimed: for an RC circuit current(0) = V / Req, current(t) > 0, and
\* current(t2) < current(t1) for all 0 <= t1 < t2.
C6_Original ==
    (pc = "sampled" /\ RCCircuit /\ FLe(Zero, t_phys)) =>
        /\ t_phys = Zero => FMul(I, SumR) = Q(V, 1)
        /\ FLt(Zero, I)
        /\ (probe.call = "current" /\ FLe(Zero, probe.t) /\ FLt(probe.t, t_phys))
              => FLt(I, probe.I)

\* C6 amended: for an RC circuit with V > 0, Req > 0 and tau > 0,
\* current(0) = V / Req, current(t) >= 0, and current(t2) <= current(t1) for
\* all 0 <= t1 < t2.
C6_RCDecay ==
    (/\ pc = "sampled" /\ RCCircuit /\ FLe(Zero, t_phys)
     /\ V > 0 /\ FLt(Zero, physics.Req) /\ FLt(Zero, physics.tau)) =>
        /\ t_phys = Zero => FMul(I, SumR) = Q(V, 1)
        /\ FLe(Zero, I)
        /\ (probe.call = "current" /\ FLe(Zero, probe.t) /\ FLt(probe.t, t_phys))
              => FLe(I, probe.I)

\* Two samples of a live RC circuit, the later one strictly smaller.
C6_Witness ==
    /\ pc = "sampled"
    /\ RCCircuit
    /\ V > 0 /\ FLt(Zero, physics.Req) /\ FLt(Zero, physics.tau)
    /\ probe.call = "current"
    /\ FLe(Zero, probe.t)
    /\ FLt(probe.t, t_phys)
    /\ FLt(Zero, I)
    /\ FLt(I, probe.I)

\* What C7 says of every count, but for the order of the values: nothing for
\* n <= 0, the middle for n = 1, and for n >= 2 n values from 0.08*total to
\* 0.92*total a constant (b-a)/(n-1) apart.
C7_Shape ==
    LET n == probe.n
        a == FMul(probe.totalL, Q(8, 100))
        b == FMul(probe.totalL, Q(92, 100))
    IN  /\ n <= 0 => centers_s = <<>>
        /\ n = 1 => centers_s = <<FMul(probe.totalL, Q(1, 2))>>
        /\ n >= 2 =>
              /\ Len(centers_s) = n
              /\ centers_s[1] = a
              /\ centers_s[n] = b
              /\ \A i \in 1..(n - 1) :
                    FMul(FSub(centers_s[i + 1], centers_s[i]), Q(n - 1, 1))
                       = FSub(b, a)

C7_Increasing ==
    \A i \in 1..(Len(centers_s) - 1) : FLt(centers_s[i], centers_s[i + 1])

\* C7 as claimed: for every total length the values are as above and, for
\* n >= 2, strictly increasing.
C7_Original == pc = "laid" => C7_Shape /\ C7_Increasing

\* C7 amended: for every total length the values are as above; for n >= 2
\* they are strictly increasing when the total length is positive (and all
\* 0 when it is 0).
C7_Centers ==
    pc = "laid" =>
        /\ C7_Shape
        /\ FLt(Zero, probe.totalL) => C7_Increasing
        /\ probe.totalL = Zero => \A i \in 1..Len(centers_s) : centers_s[i] = Zero

\* Three or more centers laid out on a path of positive length.
C7_Witness ==
    /\ pc = "laid"
    /\ probe.n >= 3
    /\ FLt(Zero, probe.totalL)
    /\ Len(centers_s) = probe.n

\* C8: the order prompt_order returns holds 'B' exactly once and every name
\* token exactly once, and nothing else.
C8_OrderIsPermutation ==
    pc = "physics" =>
        LET toks == <<"B">> \o name_tokens(Len(resistors), Len(capacitors))
        IN  /\ \A tok \in Range(toks) : Count(order, tok) = 1
            /\ Range(order) \subseteq Range(toks)

\* The unit tangent of the last segment of non-zero length, (1,0) if there
\* is none.
LastTangent(pts) ==
    LET lens == polyline_lengths(pts)
        live == {i \in 1..Len(lens) : lens[i] # Zero}
    IN  IF live = {} THEN <<Q(1, 1), Zero>>
        ELSE LET i == CHOOSE j \in live : \A m \in live : m <= j
             IN  <<FDiv(FSub(pts[i + 1][1], pts[i][1]), lens[i]),
                   FDiv(FSub(pts[i + 1][2], pts[i][2]), lens[i])>>

\* C9: a distance beyond the end of the path gives the final point and the
\* unit tangent of the last segment of non-zero length, (1,0) if there is
\* none; never the zero vector.
C9_FallbackTangent ==
    (pc = "queried" /\ Len(probe.pts) >= 2 /\ FLt(ProbeLength, probe.s)) =>
        /\ probe.pos.status = "ok"
        /\ <<probe.pos.x, probe.pos.y>> = probe.pts[Len(probe.pts)]
        /\ <<probe.pos.ux, probe.pos.uy>> = LastTangent(probe.pts)
        /\ <<probe.pos.ux, probe.pos.uy>> # <<Zero, Zero>>

\* C10: the clock is changed only by a tick, a tick advances it by exactly
\* dt_wall * time_scale and samples the current at the new time before the
\* electrons are updated once, and the clock never runs backwards.
C10_Clock ==
    [][/\ t_phys' # t_phys => ticks' = ticks + 1
       /\ ticks' = ticks + 1 =>
             /\ t_phys' = FAdd(t_phys, FMul(dt_wall, Q(time_scale, 1)))
             /\ I' = current(physics, t_phys')
             /\ isfinite(I') =>
                   electrons' = update(electrons, dt_wall,
                       FMul(FMul(Q(k, 1), FAbs(I')), Q(speed_scale, 1)))
       /\ FLe(t_phys, t_phys')]_vars

====
